---- MODULE Spec2Model ----
(***************************************************************************)
(* Order / escrow state machine of the account marketplace: the REST       *)
(* handlers of the server and the bot handlers that drive them, over the   *)
(* four tables of the ledger store (users, accounts, orders, withdrawals). *)
(* Every awaited store call is one step; a db.transaction commits in one   *)
(* step and a SELECT ... FOR UPDATE holds its row lock until that commit.  *)
(***************************************************************************)
EXTENDS Integers, FiniteSets, Sequences, TLC

\* ------------------------------------------------------------------ bounds
NumAccounts == 2
NumListed == 1
NumUsers == 3
MaxOrders == 2
MaxTimers == 2
MaxInFlight == 2
MaxWithdrawals == 2
MaxCompletions == 2

AccountIds == 1..NumAccounts
UserIds == 1..NumUsers
WithdrawalIds == 1..MaxWithdrawals
OrderIds == 1..MaxOrders
None == 0

\* ------------------------------------------------------------- the receipts
\* What the Telebirr verifier answers for a receipt reference: the verifier is
\* an external service, its answer for one reference is always the same.
EscrowName == "Kaleb Mate Megane"
Receipts == {"R1", "R2"}
\* Receipts whose receiver is written differently, and one of a stranger.
OtherReceipts == {"R3", "R4"}
settledAmount(r) == CASE r = "R1" -> 300 [] r = "R2" -> 100 [] OTHER -> 200
creditedPartyName(r) ==
    CASE r = "R3" -> " kaleb mate " [] r = "R4" -> "Abebe Kebede" [] OTHER -> EscrowName

\* What the CBE verifier reads off a receipt image: data.receiver, data.amount.
cbeReceiver(r) == creditedPartyName(r)
cbeAmount(r) == settledAmount(r)

\* String.prototype.trim().toUpperCase() on the names the receipts carry.
trimToUpperCase(name) ==
    CASE name = "Kaleb Mate Megane" -> "KALEB MATE MEGANE"
      [] name = "Kaleb Mate" -> "KALEB MATE"
      [] name = " kaleb mate " -> "KALEB MATE"
      [] name = "Abebe Kebede" -> "ABEBE KEBEDE"
      [] OTHER -> name

VARIABLES
    accounts,      \* table accounts: id -> [status, owner_id, price]
    orders,        \* table orders: id -> [buyer_id, account_id, amount, status, receipt_no]
    users,         \* table users: id -> [balance]
    nextOrder,     \* the next order id the store hands out
    buy,           \* per user: position of the bot's order_account_ handler
    session,       \* per user: the bot session (pendingAccountId, pendingPaymentMethod)
    expiry,        \* per account: reservation timers, counted by position
    put,           \* per order: position of PUT /orders/:id and of transfer_complete
    cleanup,       \* per account: post-completion cleanup timers, counted by position
    cancelTx,      \* per order: the account a running cancel transaction has read
    completions,   \* number of completion requests issued so far
    credited,      \* per user: sum of the prices the completion handlers have credited
    orderless,     \* per account: no order was created for it since it was last reserved
    lastMismatch,  \* the latest receipt a payment handler turned down: who, account, receipt
    savedTx,       \* the transactions the CBE verifier has on record (save-transaction)
    undelivered,   \* the operations one of whose notices could not be delivered
    del,           \* per account: position and requester of a running DELETE /accounts/:id
    notFound,      \* the orders for which a cancel request was answered 404
    withdrawals,   \* the rows of the withdrawals table, in the order of their insertion
    wd,            \* per request slot: position and data of a withdrawal request
    keptImages,    \* the receipts whose uploaded image a photo handler left without a delete attempt
    cleanupFailed, \* the accounts one of whose cleanup timers ended in its catch block
    holder         \* per account: the user whose reserve request made it pending, while it is pending

\* The state of the payment verification.
payVars == <<lastMismatch, savedTx>>

noteVars == <<undelivered>>

delVars == <<del>>

cancelVars == <<notFound>>

wdVars == <<withdrawals, wd>>

imageVars == <<keptImages>>

cleanupVars == <<cleanupFailed>>

reserveVars == <<holder>>

vars == <<accounts, orders, users, nextOrder, buy, session, expiry, put, cleanup, cancelTx,
          completions, credited, orderless, payVars, noteVars, delVars, cancelVars, wdVars, imageVars, cleanupVars, reserveVars>>

\* ------------------------------------------------------------------ schema
\* accounts.owner_id and accounts.price are set when the account is listed and
\* no handler changes them.
OwnerOf(a) == 1
PriceOf(a) == 100 * a

NewAccount(a) == [status |-> "available", owner_id |-> OwnerOf(a), price |-> PriceOf(a)]

Idle == [pc |-> "idle", account |-> None]
NoSession == [pendingAccountId |-> None, pendingPaymentMethod |-> "none"]
NoTimers == [scheduled |-> 0, checked |-> 0, writing |-> 0]
NoCleanup == [scheduled |-> 0, ordersDeleted |-> 0]
NoWithdrawal ==
    [pc |-> "idle", path |-> "none", user_id |-> None, amount |-> 0, balance |-> 0,
     atRequest |-> 0, answer |-> "none", reason |-> "none"]
NoDelete == [pc |-> "idle", requester |-> None]
NoMismatch == [user |-> None, account |-> None, receipt |-> "none"]
NoPut == [pc |-> "idle", status |-> "none", account |-> None, seller |-> None,
          price |-> 0, balance |-> 0]

\* The state after start-up, with the accounts of `listed` on the market.
InitWith(listed) ==
    /\ accounts = [a \in listed |-> NewAccount(a)]
    /\ orders = <<>>
    /\ users = [u \in UserIds |-> [balance |-> 0]]
    /\ nextOrder = 1
    /\ session = [u \in UserIds |-> NoSession]
    /\ expiry = [a \in AccountIds |-> NoTimers]
    /\ put = [o \in OrderIds |-> NoPut]
    /\ cleanup = [a \in AccountIds |-> NoCleanup]
    /\ cancelTx = [o \in OrderIds |-> None]
    /\ completions = 0
    /\ credited = [u \in UserIds |-> 0]
    /\ orderless = [a \in AccountIds |-> FALSE]
    /\ lastMismatch = NoMismatch
    /\ savedTx = {}
    /\ undelivered = {}
    /\ del = [a \in AccountIds |-> NoDelete]
    /\ notFound = {}
    /\ withdrawals = <<>>
    /\ keptImages = {}
    /\ cleanupFailed = {}
    /\ holder = [a \in AccountIds |-> None]
    /\ wd = [w \in WithdrawalIds |-> NoWithdrawal]

Init == InitWith(1..NumListed) /\ buy = [u \in UserIds |-> Idle]

\* ----------------------------------------------------------- store helpers
AccountExists(a) == a \in DOMAIN accounts
OrderExists(o) == o \in DOMAIN orders
OrdersOf(a) == {o \in DOMAIN orders : orders[o].account_id = a}
PendingOrdersOf(a) == {o \in OrdersOf(a) : orders[o].status = "pending"}
ActiveOrdersOf(a) == {o \in OrdersOf(a) : orders[o].status \in {"pending", "in_progress"}}

\* The row lock SELECT ... FOR UPDATE takes on accounts[a]: held by the reserve
\* transaction of the user whose handler is between its select and its commit.
LockHolders(a) == {u \in UserIds : buy[u].pc = "locked" /\ buy[u].account = a}
RowLocked(a) == LockHolders(a) # {}

\* UPDATE accounts SET status = s WHERE id = a (no row: nothing happens).
SetStatus(accts, a, s) ==
    IF a \in DOMAIN accts THEN [accts EXCEPT ![a].status = s] ELSE accts

\* The reservations h that are left with the account rows accts: an account
\* that is not pending is reserved for nobody.
Released(h, accts) ==
    [a \in AccountIds |->
        IF a \in DOMAIN accts /\ accts[a].status = "pending" THEN h[a] ELSE None]

\* DELETE FROM accounts WHERE id = a.
DeleteAccountRow(accts, a) == [x \in DOMAIN accts \ {a} |-> accts[x]]

\* DELETE FROM orders for a set of ids.
DeleteOrderRows(ords, gone) == [x \in DOMAIN ords \ gone |-> ords[x]]

\* The reservation timers of an account that have not finished yet.
TimersOf(a) == expiry[a].scheduled + expiry[a].checked + expiry[a].writing

RECURSIVE Sum(_, _)
Sum(f, S) == IF S = {} THEN 0 ELSE LET x == CHOOSE y \in S : TRUE IN f[x] + Sum(f, S \ {x})

\* The handlers and timer callbacks that have started and not finished.
InFlight ==
    Cardinality({u \in UserIds : buy[u].pc # "idle"})
    + Cardinality({o \in OrderIds : put[o].pc \notin {"idle", "hung"}})
    + Cardinality({o \in OrderIds : cancelTx[o] # None})
    + Cardinality({a \in AccountIds : del[a].pc # "idle"})
    + Sum([a \in AccountIds |-> expiry[a].checked + expiry[a].writing
                                 + cleanup[a].ordersDeleted], AccountIds)

\* ------------------------------------------------ POST /accounts/:id/reserve
\* A plain SELECT, which never waits for a row lock.
CanLockNoForUpdate(a) == TRUE

\* SELECT ... FOR UPDATE waits while another transaction holds the row lock.
CanLock(a) == ~RowLocked(a)

\* A check that forgets the status.
ReservableWhateverStatus(a) == AccountExists(a)

\* The check of the reserve transaction on the row it has read.
Reservable(a) == AccountExists(a) /\ accounts[a].status = "available"

\* bot.on('callback_query') order_account_<a>: the handler sends the reserve
\* request for the user.
OrderAccount(u, a) ==
    /\ buy[u].pc = "idle"
    /\ TimersOf(a) < MaxTimers
    /\ InFlight < MaxInFlight
    /\ buy' = [buy EXCEPT ![u] = [pc |-> "sent", account |-> a]]
    /\ UNCHANGED <<accounts, orders, users, nextOrder, session, expiry, put, cleanup,
                   cancelTx, completions, credited, orderless, payVars, noteVars, delVars, cancelVars, wdVars, imageVars, cleanupVars, reserveVars>>

\* The transaction's select and check: it throws (409, rolled back) unless the
\* account exists and is available, and otherwise keeps the row locked.
ReserveSelect(u) ==
    /\ buy[u].pc = "sent"
    /\ CanLock(buy[u].account)
    /\ buy' = [buy EXCEPT ![u].pc =
                  IF Reservable(buy[u].account) THEN "locked" ELSE "conflict"]
    /\ UNCHANGED <<accounts, orders, users, nextOrder, session, expiry, put, cleanup,
                   cancelTx, completions, credited, orderless, payVars, noteVars, delVars, cancelVars, wdVars, imageVars, cleanupVars, reserveVars>>

\* The transaction's update, the setTimeout of the release, and the commit.
ReserveCommit(u) ==
    /\ buy[u].pc = "locked"
    /\ LET a == buy[u].account IN
        /\ accounts' = SetStatus(accounts, a, "pending")
        /\ expiry' = [expiry EXCEPT ![a].scheduled = @ + 1]
        /\ orderless' = [orderless EXCEPT ![a] = TRUE]
        /\ holder' = [holder EXCEPT ![a] = u]
    /\ buy' = [buy EXCEPT ![u].pc = "ok"]
    /\ UNCHANGED <<orders, users, nextOrder, session, put, cleanup, cancelTx,
                   completions, credited, payVars, noteVars, delVars, cancelVars, wdVars, imageVars, cleanupVars>>

\* GET /orders/check: the buyer already has an active order for the account.
HasActiveOrder(u, a) == \E o \in ActiveOrdersOf(a) : orders[o].buyer_id = u

\* A handler that lets the owner go on like any buyer.
OrderAccountContinueNoOwnerCheck(u) ==
    /\ buy[u].pc \in {"ok", "conflict"}
    /\ LET a == buy[u].account IN
        session' = IF buy[u].pc = "ok" /\ ~HasActiveOrder(u, a)
                   THEN [session EXCEPT ![u].pendingAccountId = a]
                   ELSE session
    /\ buy' = [buy EXCEPT ![u] = Idle]
    /\ UNCHANGED <<accounts, orders, users, nextOrder, expiry, put, cleanup, cancelTx,
                   completions, credited, orderless, payVars, noteVars, delVars, cancelVars, wdVars, imageVars, cleanupVars, reserveVars>>

\* The rest of the order_account_ handler, after the reserve response: on 409 it
\* only edits the message; the owner and a buyer with an active order are turned
\* away; otherwise the account is remembered in the session.
OrderAccountContinue(u) ==
    /\ buy[u].pc \in {"ok", "conflict"}
    /\ LET a == buy[u].account IN
        session' = IF /\ buy[u].pc = "ok"
                      /\ u # OwnerOf(a)
                      /\ ~HasActiveOrder(u, a)
                   THEN [session EXCEPT ![u].pendingAccountId = a]
                   ELSE session
    /\ buy' = [buy EXCEPT ![u] = Idle]
    /\ UNCHANGED <<accounts, orders, users, nextOrder, expiry, put, cleanup, cancelTx,
                   completions, credited, orderless, payVars, noteVars, delVars, cancelVars, wdVars, imageVars, cleanupVars, reserveVars>>

\* bot.action pay_method_telebirr_<a>: the handler stores the account of the
\* button and the method in the session. The button is pressed on the keyboard
\* the handler above has just sent, so a is the account the session holds.
PayMethodTelebirr(u) ==
    /\ session[u].pendingAccountId # None
    /\ session[u].pendingPaymentMethod # "telebirr"
    /\ LET a == session[u].pendingAccountId IN
        session' = [session EXCEPT ![u] =
                       [pendingAccountId |-> a, pendingPaymentMethod |-> "telebirr"]]
    /\ UNCHANGED <<accounts, orders, users, nextOrder, buy, expiry, put, cleanup,
                   cancelTx, completions, credited, orderless, payVars, noteVars, delVars, cancelVars, wdVars, imageVars, cleanupVars, reserveVars>>

\* ------------------------------------------------- reservation expiry timer
\* First read of the timer: the account row; it goes on only if it is pending.
ExpiryFire(a) ==
    /\ expiry[a].scheduled > 0
    /\ InFlight < MaxInFlight
    /\ expiry' = [expiry EXCEPT ![a] =
          IF AccountExists(a) /\ accounts[a].status = "pending"
          THEN [@ EXCEPT !.scheduled = @ - 1, !.checked = @ + 1]
          ELSE [@ EXCEPT !.scheduled = @ - 1]]
    /\ UNCHANGED <<accounts, orders, users, nextOrder, buy, session, put, cleanup,
                   cancelTx, completions, credited, orderless, payVars, noteVars, delVars, cancelVars, wdVars, imageVars, cleanupVars, reserveVars>>

\* Second read: the pending orders of the account.
ExpiryCheckOrders(a) ==
    /\ expiry[a].checked > 0
    /\ expiry' = [expiry EXCEPT ![a] =
          IF PendingOrdersOf(a) = {}
          THEN [@ EXCEPT !.checked = @ - 1, !.writing = @ + 1]
          ELSE [@ EXCEPT !.checked = @ - 1]]
    /\ UNCHANGED <<accounts, orders, users, nextOrder, buy, session, put, cleanup,
                   cancelTx, completions, credited, orderless, payVars, noteVars, delVars, cancelVars, wdVars, imageVars, cleanupVars, reserveVars>>

\* The write: the account is made available again.
ExpiryRelease(a) ==
    /\ expiry[a].writing > 0
    /\ ~RowLocked(a)
    /\ accounts' = SetStatus(accounts, a, "available")
    /\ holder' = Released(holder, accounts')
    /\ expiry' = [expiry EXCEPT ![a].writing = @ - 1]
    /\ UNCHANGED <<orders, users, nextOrder, buy, session, put, cleanup, cancelTx,
                   completions, credited, orderless, payVars, noteVars, delVars, cancelVars, wdVars, imageVars, cleanupVars>>

\* ------------------------------------- POST /orders/verify-payment, POST /orders
\* A verification that lets every receipt through.
PaymentAcceptedAlways(r, expectedAmount) == TRUE

\* The check of verify-payment on the verifier's data.
PaymentAccepted(r, expectedAmount) ==
    ~(creditedPartyName(r) # EscrowName \/ settledAmount(r) < expectedAmount)

\* POST /orders: the insert; the foreign key on account_id rejects an order for
\* an account that has no row.
CanInsertOrder(a) == AccountExists(a)

InsertOrder(ords, id, u, a, amount, r) ==
    [x \in DOMAIN ords \cup {id} |->
        IF x = id
        THEN [buyer_id |-> u, account_id |-> a, amount |-> amount,
              status |-> "pending", receipt_no |-> r]
        ELSE ords[x]]

\* bot.on('text'): the receipt number of a Telebirr payment. A rejected receipt
\* is answered with the verification error and leaves the session as it is; an
\* accepted one creates the order, and the session forgets the account whether
\* the insert succeeds or throws.
ReceiptText(u, r) ==
    /\ session[u].pendingAccountId # None
    /\ session[u].pendingPaymentMethod = "telebirr"
    /\ nextOrder <= MaxOrders
    /\ LET a == session[u].pendingAccountId
           accountPrice == PriceOf(a)
       IN  IF ~PaymentAccepted(r, accountPrice)
           THEN /\ lastMismatch' = [user |-> u, account |-> a, receipt |-> r]
                /\ UNCHANGED <<orders, nextOrder, session, orderless>>
           ELSE /\ session' = [session EXCEPT ![u].pendingAccountId = None]
                /\ lastMismatch' = lastMismatch
                /\ IF CanInsertOrder(a)
                   THEN /\ orders' = InsertOrder(orders, nextOrder, u, a, accountPrice, r)
                        /\ nextOrder' = nextOrder + 1
                        /\ orderless' = [orderless EXCEPT ![a] = FALSE]
                   ELSE UNCHANGED <<orders, nextOrder, orderless>>
    /\ UNCHANGED <<accounts, users, buy, expiry, put, cleanup, cancelTx, completions,
                   credited, savedTx, noteVars, delVars, cancelVars, wdVars, imageVars, cleanupVars, reserveVars>>

\* ------------------------------------------------ bot.on('photo'): CBE payment
\* bot.action pay_method_cbe_<a>, pressed like the Telebirr button.
PayMethodCbe(u) ==
    /\ session[u].pendingAccountId # None
    /\ session[u].pendingPaymentMethod # "cbe"
    /\ LET a == session[u].pendingAccountId IN
        session' = [session EXCEPT ![u] =
                       [pendingAccountId |-> a, pendingPaymentMethod |-> "cbe"]]
    /\ UNCHANGED <<accounts, orders, users, nextOrder, buy, expiry, put, cleanup,
                   cancelTx, completions, credited, orderless, payVars, noteVars, delVars, cancelVars, wdVars, imageVars, cleanupVars, reserveVars>>

validReceivers == {"Kaleb Mate", "KALEB MATE MEGANE"}

\* validReceivers.some(name => name.toUpperCase() === normalizedReceiver).
isValidReceiver(name) ==
    \E v \in validReceivers : trimToUpperCase(v) = trimToUpperCase(name)

\* The two checks of the photo handler on the verifier's data.
CbeAccepted(r, accountPrice) ==
    isValidReceiver(cbeReceiver(r)) /\ ~(cbeAmount(r) # accountPrice)

\* What can go wrong in the photo handler beside the checks on the receipt: the
\* verifier's answer is not ok, the verifier turns the receipt down, the lookup
\* of the user fails, POST /orders fails.
Faults == {"none", "verifier", "rejected", "user", "order"}

\* The screenshot of a CBE receipt, uploaded before anything is checked. The
\* paths of the handler, in its order:
\*   the verifier's answer is not ok: the image is deleted, the throw ends in
\*     the catch block, which clears the session;
\*   the verifier turns the receipt down, as it does a transaction it has on
\*     record ("transaction already exist"): the image is deleted and the
\*     handler replies and returns;
\*   the user lookup fails: throw, with no delete of the image;
\*   the receiver is not valid: throw, with no delete of the image;
\*   the amount is not the price: the image is deleted, throw;
\*   POST /orders fails: throw, with no delete of the image;
\*   the order is created: save-transaction is attempted, whose failure (saved
\*     = FALSE) is only logged, the image is deleted, the session is cleared.
ReceiptPhoto(u, r, saved, fault) ==
    /\ session[u].pendingAccountId # None
    /\ session[u].pendingPaymentMethod = "cbe"
    /\ nextOrder <= MaxOrders
    /\ LET a == session[u].pendingAccountId
           accountPrice == PriceOf(a)
       IN  IF fault = "rejected" \/ r \in savedTx
           THEN UNCHANGED <<session, lastMismatch, orders, nextOrder, orderless, savedTx,
                            keptImages>>
           ELSE
           /\ session' = [session EXCEPT ![u] = NoSession]
           /\ IF fault = "verifier"
              THEN UNCHANGED <<lastMismatch, orders, nextOrder, orderless, savedTx,
                               keptImages>>
              ELSE IF fault = "user"
              THEN /\ keptImages' = keptImages \cup {r}
                   /\ UNCHANGED <<lastMismatch, orders, nextOrder, orderless, savedTx>>
              ELSE IF ~CbeAccepted(r, accountPrice)
              THEN /\ lastMismatch' = [user |-> u, account |-> a, receipt |-> r]
                   /\ keptImages' = IF ~isValidReceiver(cbeReceiver(r))
                                     THEN keptImages \cup {r} ELSE keptImages
                   /\ UNCHANGED <<orders, nextOrder, orderless, savedTx>>
              ELSE /\ lastMismatch' = lastMismatch
                   /\ IF CanInsertOrder(a) /\ fault # "order"
                      THEN /\ orders' = InsertOrder(orders, nextOrder, u, a, cbeAmount(r), r)
                           /\ nextOrder' = nextOrder + 1
                           /\ orderless' = [orderless EXCEPT ![a] = FALSE]
                           /\ savedTx' = IF saved THEN savedTx \cup {r} ELSE savedTx
                           /\ keptImages' = keptImages
                      ELSE /\ keptImages' = keptImages \cup {r}
                           /\ UNCHANGED <<orders, nextOrder, orderless, savedTx>>
    /\ UNCHANGED <<accounts, users, buy, expiry, put, cleanup, cancelTx, completions,
                   credited, noteVars, delVars, cancelVars, wdVars, cleanupVars, reserveVars>>

\* ------------------------------------- PUT /orders/:id and transfer_complete
\* bot.action transfer_complete_<o>, pressed on the button of an order the
\* seller was shown: the handler sends PUT /orders/:id {status: 'completed'}.
TransferComplete(o) ==
    /\ o < nextOrder
    /\ put[o].pc = "idle"
    /\ completions < MaxCompletions
    /\ InFlight < MaxInFlight
    /\ put' = [put EXCEPT ![o] = [NoPut EXCEPT !.pc = "select", !.status = "completed"]]
    /\ completions' = completions + 1
    /\ UNCHANGED <<accounts, orders, users, nextOrder, buy, session, expiry, cleanup,
                   cancelTx, credited, orderless, payVars, noteVars, delVars, cancelVars, wdVars, imageVars, cleanupVars, reserveVars>>

\* The values of orders.status other than 'completed'.
OtherStatuses == {"pending", "cancelled", "failed"}

\* PUT /orders/:id {status} sent to the endpoint by any other caller, with a
\* status the bot never sends.
UpdateOrderStatus(o, status) ==
    /\ o < nextOrder
    /\ put[o].pc = "idle"
    /\ status \in OtherStatuses
    /\ InFlight < MaxInFlight
    /\ put' = [put EXCEPT ![o] = [NoPut EXCEPT !.pc = "select", !.status = status]]
    /\ UNCHANGED <<accounts, orders, users, nextOrder, buy, session, expiry, cleanup,
                   cancelTx, completions, credited, orderless, payVars, noteVars, delVars,
                   cancelVars, wdVars, imageVars, cleanupVars, reserveVars>>

\* The handler's select of the order: 404 when there is no such row, and the bot
\* handler then ends.
PutSelect(o) ==
    /\ put[o].pc = "select"
    /\ put' = [put EXCEPT ![o] = IF OrderExists(o) THEN [@ EXCEPT !.pc = "update"] ELSE NoPut]
    /\ UNCHANGED <<accounts, orders, users, nextOrder, buy, session, expiry, cleanup,
                   cancelTx, completions, credited, orderless, payVars, noteVars, delVars, cancelVars, wdVars, imageVars, cleanupVars, reserveVars>>

\* UPDATE orders SET status WHERE id = o RETURNING. For 'completed' the handler
\* goes on with result[0].account_id; with no row returned that read throws, the
\* catch block sends nothing and the bot handler never gets an answer.
PutUpdate(o) ==
    /\ put[o].pc = "update"
    /\ IF OrderExists(o)
       THEN /\ orders' = [orders EXCEPT ![o].status = put[o].status]
            /\ put' = [put EXCEPT ![o] =
                  IF put[o].status = "completed"
                  THEN [@ EXCEPT !.pc = "sold", !.account = orders[o].account_id]
                  ELSE NoPut]
       ELSE /\ orders' = orders
            /\ put' = [put EXCEPT ![o] =
                  IF put[o].status = "completed" THEN [@ EXCEPT !.pc = "hung"] ELSE NoPut]
    /\ UNCHANGED <<accounts, users, nextOrder, buy, session, expiry, cleanup, cancelTx,
                   completions, credited, orderless, payVars, noteVars, delVars, cancelVars, wdVars, imageVars, cleanupVars, reserveVars>>

\* The update without the setTimeout.
PutMarkSoldNoCleanup(o) ==
    /\ put[o].pc = "sold"
    /\ ~RowLocked(put[o].account)
    /\ accounts' = SetStatus(accounts, put[o].account, "sold")
    /\ holder' = Released(holder, accounts')
    /\ put' = [put EXCEPT ![o].pc = "fetch"]
    /\ UNCHANGED <<orders, users, nextOrder, buy, session, expiry, cleanup, cancelTx,
                   completions, credited, orderless, payVars, noteVars, delVars, cancelVars,
                   wdVars, imageVars, cleanupVars>>

\* UPDATE accounts SET status = 'sold', the setTimeout of the cleanup, and the
\* response.
PutMarkSold(o) ==
    /\ put[o].pc = "sold"
    /\ ~RowLocked(put[o].account)
    /\ accounts' = SetStatus(accounts, put[o].account, "sold")
    /\ holder' = Released(holder, accounts')
    /\ cleanup' = [cleanup EXCEPT ![put[o].account].scheduled = @ + 1]
    /\ put' = [put EXCEPT ![o].pc = "fetch"]
    /\ UNCHANGED <<orders, users, nextOrder, buy, session, expiry, cancelTx,
                   completions, credited, orderless, payVars, noteVars, delVars, cancelVars, wdVars, imageVars, cleanupVars>>

\* What the handler credits: account.price of the order it fetched.
CreditAmount(o) == accounts[orders[o].account_id].price

\* transfer_complete step 2, GET /orders/:id: the order joined with its buyer and
\* its account; 404 (and the handler returns) when the join is empty.
TransferFetchOrder(o) ==
    /\ put[o].pc = "fetch"
    /\ put' = [put EXCEPT ![o] =
          IF OrderExists(o) /\ AccountExists(orders[o].account_id)
          THEN [@ EXCEPT !.pc = "getSeller",
                         !.seller = accounts[orders[o].account_id].owner_id,
                         !.price = CreditAmount(o)]
          ELSE NoPut]
    /\ UNCHANGED <<accounts, orders, users, nextOrder, buy, session, expiry, cleanup,
                   cancelTx, completions, credited, orderless, payVars, noteVars, delVars, cancelVars, wdVars, imageVars, cleanupVars, reserveVars>>

\* transfer_complete step 3, GET /users/:id: the seller's current balance.
TransferGetSeller(o) ==
    /\ put[o].pc = "getSeller"
    /\ put' = [put EXCEPT ![o].pc = "credit", ![o].balance = users[put[o].seller].balance]
    /\ UNCHANGED <<accounts, orders, users, nextOrder, buy, session, expiry, cleanup,
                   cancelTx, completions, credited, orderless, payVars, noteVars, delVars, cancelVars, wdVars, imageVars, cleanupVars, reserveVars>>

\* The balance the handler sends: currentBalance + account.price.
NewBalance(currentBalance, price) == currentBalance + price

\* PUT /users/:id {balance}: the balance the handler computed is written.
TransferCredit(o) ==
    /\ put[o].pc = "credit"
    /\ users' = [users EXCEPT ![put[o].seller].balance =
                     NewBalance(put[o].balance, put[o].price)]
    /\ credited' = [credited EXCEPT ![put[o].seller] = @ + put[o].price]
    /\ put' = [put EXCEPT ![o] = [NoPut EXCEPT !.pc = "notify"]]
    /\ UNCHANGED <<accounts, orders, nextOrder, buy, session, expiry, cleanup, cancelTx,
                   completions, orderless, payVars, noteVars, delVars, cancelVars, wdVars, imageVars, cleanupVars, reserveVars>>

\* GET /users/:id or PUT /users/:id answers with an error: the handler catches
\* it, tells the seller that the credit failed and goes on to the notices.
TransferCreditFails(o) ==
    /\ put[o].pc \in {"getSeller", "credit"}
    /\ put' = [put EXCEPT ![o] = [NoPut EXCEPT !.pc = "notify"]]
    /\ UNCHANGED <<accounts, orders, users, nextOrder, buy, session, expiry, cleanup,
                   cancelTx, completions, credited, orderless, payVars, noteVars, delVars, cancelVars, wdVars, imageVars, cleanupVars, reserveVars>>

\* Notices whose failure takes the completed order back to pending.
TransferNotifyUndoes(o, sellerOk, buyerOk) ==
    /\ put[o].pc = "notify"
    /\ put' = [put EXCEPT ![o] = NoPut]
    /\ undelivered' = IF sellerOk /\ buyerOk THEN undelivered
                       ELSE undelivered \cup {<<"order", o>>}
    /\ orders' = IF (sellerOk /\ buyerOk) \/ ~OrderExists(o) THEN orders
                  ELSE [orders EXCEPT ![o].status = "pending"]
    /\ UNCHANGED <<accounts, users, nextOrder, buy, session, expiry, cleanup,
                   cancelTx, completions, credited, orderless, payVars, delVars, cancelVars, wdVars, imageVars, cleanupVars, reserveVars>>

\* transfer_complete steps 4 and 5: the seller's message is edited and the buyer
\* is sent a message. A failed edit throws into the outer catch block, which
\* skips the buyer's message; a failed message to the buyer is caught and logged.
TransferNotify(o, sellerOk, buyerOk) ==
    /\ put[o].pc = "notify"
    /\ put' = [put EXCEPT ![o] = NoPut]
    /\ undelivered' = IF sellerOk /\ buyerOk THEN undelivered
                       ELSE undelivered \cup {<<"order", o>>}
    /\ UNCHANGED <<accounts, orders, users, nextOrder, buy, session, expiry, cleanup,
                   cancelTx, completions, credited, orderless, payVars, delVars, cancelVars, wdVars, imageVars, cleanupVars, reserveVars>>

\* --------------------------------------------- cleanup timer of PUT /orders/:id
\* DELETE FROM orders WHERE account_id = a.
CleanupDeleteOrders(a) ==
    /\ cleanup[a].scheduled > 0
    /\ InFlight < MaxInFlight
    /\ orders' = DeleteOrderRows(orders, OrdersOf(a))
    /\ cleanup' = [cleanup EXCEPT ![a].scheduled = @ - 1, ![a].ordersDeleted = @ + 1]
    /\ UNCHANGED <<accounts, users, nextOrder, buy, session, expiry, put, cancelTx,
                   completions, credited, orderless, payVars, noteVars, delVars, cancelVars, wdVars, imageVars, cleanupVars, reserveVars>>

\* DELETE FROM accounts WHERE id = a; orders.account_id is ON DELETE CASCADE.
CleanupDeleteAccount(a) ==
    /\ cleanup[a].ordersDeleted > 0
    /\ ~RowLocked(a)
    /\ accounts' = DeleteAccountRow(accounts, a)
    /\ holder' = Released(holder, accounts')
    /\ orders' = DeleteOrderRows(orders, OrdersOf(a))
    /\ cleanup' = [cleanup EXCEPT ![a].ordersDeleted = @ - 1]
    /\ UNCHANGED <<users, nextOrder, buy, session, expiry, put, cancelTx, completions,
                   credited, orderless, payVars, noteVars, delVars, cancelVars, wdVars, imageVars, cleanupVars>>

\* One of the two deletes of the timer callback throws: the catch block logs
\* the error and the callback ends; nothing schedules it again. When the first
\* delete throws the second is not attempted.
CleanupFails(a) ==
    /\ \/ /\ cleanup[a].scheduled > 0
          /\ cleanup' = [cleanup EXCEPT ![a].scheduled = @ - 1]
       \/ /\ cleanup[a].ordersDeleted > 0
          /\ cleanup' = [cleanup EXCEPT ![a].ordersDeleted = @ - 1]
    /\ cleanupFailed' = cleanupFailed \cup {a}
    /\ UNCHANGED <<accounts, orders, users, nextOrder, buy, session, expiry, put, cancelTx,
                   completions, credited, orderless, payVars, noteVars, delVars, cancelVars,
                   wdVars, imageVars, reserveVars>>

\* --------------------------------------------------- POST /orders/:id/cancel
\* bot.action cancel_order_<o>. The transaction's select of the order: it throws
\* "Order not found" (404) when there is no row.
CancelSelect(o) ==
    /\ o < nextOrder
    /\ cancelTx[o] = None
    /\ OrderExists(o)
    /\ InFlight < MaxInFlight
    /\ cancelTx' = [cancelTx EXCEPT ![o] = orders[o].account_id]
    /\ UNCHANGED <<accounts, orders, users, nextOrder, buy, session, expiry, put,
                   cleanup, completions, credited, orderless, payVars, noteVars, delVars, cancelVars, wdVars, imageVars, cleanupVars, reserveVars>>

CancelCommitOrderOnly(o) ==
    /\ cancelTx[o] # None
    /\ ~RowLocked(cancelTx[o])
    /\ orders' = DeleteOrderRows(orders, {o})
    /\ cancelTx' = [cancelTx EXCEPT ![o] = None]
    /\ UNCHANGED <<accounts, users, nextOrder, buy, session, expiry, put, cleanup,
                   completions, credited, orderless, payVars, noteVars, delVars, cancelVars, wdVars, imageVars, cleanupVars, reserveVars>>

\* The transaction's update of the account, its delete of the order, and the
\* commit.
CancelCommit(o) ==
    /\ cancelTx[o] # None
    /\ ~RowLocked(cancelTx[o])
    /\ accounts' = SetStatus(accounts, cancelTx[o], "available")
    /\ holder' = Released(holder, accounts')
    /\ orders' = DeleteOrderRows(orders, {o})
    /\ cancelTx' = [cancelTx EXCEPT ![o] = None]
    /\ UNCHANGED <<users, nextOrder, buy, session, expiry, put, cleanup, completions,
                   credited, orderless, payVars, noteVars, delVars, cancelVars, wdVars, imageVars, cleanupVars>>

\* The select finds no row: the transaction throws "Order not found", nothing
\* was written, and the answer is 404.
CancelNotFound(o) ==
    /\ cancelTx[o] = None
    /\ ~OrderExists(o)
    /\ o \notin notFound
    /\ notFound' = notFound \cup {o}
    /\ UNCHANGED <<accounts, orders, users, nextOrder, buy, session, expiry, put, cleanup,
                   cancelTx, completions, credited, orderless, payVars, noteVars, delVars, wdVars, imageVars, cleanupVars, reserveVars>>

\* A statement of the transaction throws (the database fails): db.transaction
\* rolls back, nothing was written, and the answer is 500.
CancelAbort(o) ==
    /\ cancelTx[o] # None
    /\ cancelTx' = [cancelTx EXCEPT ![o] = None]
    /\ UNCHANGED <<accounts, orders, users, nextOrder, buy, session, expiry, put, cleanup,
                   completions, credited, orderless, payVars, noteVars, delVars, cancelVars, wdVars, imageVars, cleanupVars, reserveVars>>

\* ------------------------------------------------------- DELETE /orders/:id
DeleteOrder(o) ==
    /\ OrderExists(o)
    /\ orders' = DeleteOrderRows(orders, {o})
    /\ UNCHANGED <<accounts, users, nextOrder, buy, session, expiry, put, cleanup,
                   cancelTx, completions, credited, orderless, payVars, noteVars, delVars, cancelVars, wdVars, imageVars, cleanupVars, reserveVars>>

\* ----------------------------------------------------- DELETE /accounts/:id
\* A delete request for account a by user u. Through the bot it is the press of
\* confirm_delete_<a>, a button delete_account_<a> shows only after it has
\* checked that the user owns the account; the endpoint itself takes no
\* requester and is open to any caller.
DeleteAccountRequest(u, a, path) ==
    /\ del[a].pc = "idle"
    /\ path = "bot" => (u = OwnerOf(a) /\ AccountExists(a))
    /\ InFlight < MaxInFlight
    /\ del' = [del EXCEPT ![a] = [pc |-> "select", requester |-> u]]
    /\ UNCHANGED <<accounts, orders, users, nextOrder, buy, session, expiry, put, cleanup,
                   cancelTx, completions, credited, orderless, payVars, noteVars, cancelVars, wdVars, imageVars, cleanupVars, reserveVars>>

\* The handler's select of the account: 404 without a row, 400 unless the
\* status is available.
DeleteAccountSelect(a) ==
    /\ del[a].pc = "select"
    /\ del' = [del EXCEPT ![a] =
                  IF AccountExists(a) /\ accounts[a].status = "available"
                  THEN [@ EXCEPT !.pc = "orders"]
                  ELSE NoDelete]
    /\ UNCHANGED <<accounts, orders, users, nextOrder, buy, session, expiry, put, cleanup,
                   cancelTx, completions, credited, orderless, payVars, noteVars, cancelVars, wdVars, imageVars, cleanupVars, reserveVars>>

\* The select of the account's pending and in_progress orders: 400 when there
\* is one.
DeleteAccountCheckOrders(a) ==
    /\ del[a].pc = "orders"
    /\ del' = [del EXCEPT ![a] =
                  IF ActiveOrdersOf(a) = {} THEN [@ EXCEPT !.pc = "delete"] ELSE NoDelete]
    /\ UNCHANGED <<accounts, orders, users, nextOrder, buy, session, expiry, put, cleanup,
                   cancelTx, completions, credited, orderless, payVars, noteVars, cancelVars, wdVars, imageVars, cleanupVars, reserveVars>>

\* DELETE FROM accounts WHERE id = a, with the cascade on orders.account_id, and
\* the 200 answer, which carries no affectedOrders.
DeleteAccountCommit(a) ==
    /\ del[a].pc = "delete"
    /\ ~RowLocked(a)
    /\ accounts' = DeleteAccountRow(accounts, a)
    /\ holder' = Released(holder, accounts')
    /\ orders' = DeleteOrderRows(orders, OrdersOf(a))
    /\ del' = [del EXCEPT ![a].pc = "notify"]
    /\ UNCHANGED <<users, nextOrder, buy, session, expiry, put, cleanup, cancelTx,
                   completions, credited, orderless, payVars, noteVars, cancelVars, wdVars, imageVars, cleanupVars>>

\* confirm_delete after the answer: no buyer is sent anything, affectedOrders
\* being empty, and the message to the seller is edited; when that fails the
\* catch block logs it and tries two more messages.
DeleteAccountNotify(a, noticeOk) ==
    /\ del[a].pc = "notify"
    /\ del' = [del EXCEPT ![a] = NoDelete]
    /\ undelivered' = IF noticeOk THEN undelivered ELSE undelivered \cup {<<"account", a>>}
    /\ UNCHANGED <<accounts, orders, users, nextOrder, buy, session, expiry, put, cleanup,
                   cancelTx, completions, credited, orderless, payVars, cancelVars, wdVars, imageVars, cleanupVars, reserveVars>>

\* --------------------------------------- withdraw_balance, POST /withdrawals
\* if (userData.balance < 100) in the bot's handler.
MinWithdrawal == 100

\* The amounts a caller of POST /withdrawals sends.
Amounts == {50, 100, 200}

\* withdrawals.reason: .notNull().default('order_refund'), the value of a row
\* whose insert names no reason.
DefaultReason == "order_refund"

\* bot.action withdraw_balance pressed by user u: the handler goes on to GET
\* /users/:id. atRequest keeps the balance the user has at this moment.
WithdrawBalance(w, u) ==
    /\ wd[w].pc = "idle"
    /\ Len(withdrawals) < MaxWithdrawals
    /\ wd' = [wd EXCEPT ![w] = [NoWithdrawal EXCEPT !.pc = "get", !.path = "bot",
                                    !.user_id = u, !.atRequest = users[u].balance]]
    /\ UNCHANGED <<accounts, orders, users, nextOrder, buy, session, expiry, put, cleanup,
                   cancelTx, completions, credited, orderless, payVars, noteVars, delVars,
                   cancelVars, withdrawals, imageVars, cleanupVars, reserveVars>>

\* GET /users/:id and the threshold check: below the minimum the handler replies
\* and returns, otherwise it posts the whole balance it read, with the reason
\* 'seller_payout' in the body.
WithdrawGetUser(w) ==
    /\ wd[w].pc = "get"
    /\ LET userData == users[wd[w].user_id] IN
        wd' = [wd EXCEPT ![w] =
                  IF userData.balance < MinWithdrawal
                  THEN [@ EXCEPT !.pc = "idle", !.answer = "threshold"]
                  ELSE [@ EXCEPT !.pc = "select", !.amount = userData.balance,
                                 !.reason = "seller_payout"]]
    /\ UNCHANGED <<accounts, orders, users, nextOrder, buy, session, expiry, put, cleanup,
                   cancelTx, completions, credited, orderless, payVars, noteVars, delVars,
                   cancelVars, withdrawals, imageVars, cleanupVars, reserveVars>>

\* POST /withdrawals {user_id, amount} sent to the endpoint by any other caller.
PostWithdrawals(w, u, amount) ==
    /\ wd[w].pc = "idle"
    /\ Len(withdrawals) < MaxWithdrawals
    /\ wd' = [wd EXCEPT ![w] = [NoWithdrawal EXCEPT !.pc = "select", !.path = "api",
                                    !.user_id = u, !.amount = amount,
                                    !.atRequest = users[u].balance]]
    /\ UNCHANGED <<accounts, orders, users, nextOrder, buy, session, expiry, put, cleanup,
                   cancelTx, completions, credited, orderless, payVars, noteVars, delVars,
                   cancelVars, withdrawals, imageVars, cleanupVars, reserveVars>>

\* A select that goes on to the update whatever the balance is.
WithdrawSelectNoCheck(w) ==
    /\ wd[w].pc = "select"
    /\ wd' = [wd EXCEPT ![w] = [@ EXCEPT !.pc = "update",
                                         !.balance = users[wd[w].user_id].balance]]
    /\ UNCHANGED <<accounts, orders, users, nextOrder, buy, session, expiry, put, cleanup,
                   cancelTx, completions, credited, orderless, payVars, noteVars, delVars,
                   cancelVars, withdrawals, imageVars, cleanupVars, reserveVars>>

\* The transaction's select of the user, a plain read, and its balance check:
\* "Insufficient balance" is thrown (answer 500) when balance < amount.
WithdrawSelect(w) ==
    /\ wd[w].pc = "select"
    /\ LET user == users[wd[w].user_id] IN
        wd' = [wd EXCEPT ![w] =
                  IF user.balance < wd[w].amount
                  THEN [@ EXCEPT !.pc = "idle", !.answer = "insufficient"]
                  ELSE [@ EXCEPT !.pc = "update", !.balance = user.balance]]
    /\ UNCHANGED <<accounts, orders, users, nextOrder, buy, session, expiry, put, cleanup,
                   cancelTx, completions, credited, orderless, payVars, noteVars, delVars,
                   cancelVars, withdrawals, imageVars, cleanupVars, reserveVars>>

\* const newBalance = user[0].balance - amount, from the row the select read.
WithdrawNewBalance(w) == wd[w].balance - wd[w].amount

\* The transaction's update of the balance, its insert of the withdrawal
\* (values: user_id, amount, status 'pending'; the body's reason is not read, so
\* the column takes its default) and the commit.
WithdrawCommit(w) ==
    /\ wd[w].pc = "update"
    /\ users' = [users EXCEPT ![wd[w].user_id].balance = WithdrawNewBalance(w)]
    /\ withdrawals' = Append(withdrawals, [user_id |-> wd[w].user_id,
                                            amount |-> wd[w].amount,
                                            status |-> "pending",
                                            reason |-> DefaultReason])
    /\ wd' = [wd EXCEPT ![w] = [@ EXCEPT !.pc = "idle", !.answer = "ok"]]
    /\ UNCHANGED <<accounts, orders, nextOrder, buy, session, expiry, put, cleanup,
                   cancelTx, completions, credited, orderless, payVars, noteVars, delVars,
                   cancelVars, imageVars, cleanupVars, reserveVars>>

\* ------------------------------------------------------------ specification
Next ==
    \/ \E u \in UserIds, a \in 1..NumListed : OrderAccount(u, a)
    \/ \E u \in UserIds : ReserveSelect(u)
    \/ \E u \in UserIds : ReserveCommit(u)
    \/ \E u \in UserIds : OrderAccountContinue(u)
    \/ \E u \in UserIds : PayMethodTelebirr(u)
    \/ \E u \in UserIds, r \in Receipts : ReceiptText(u, r)
    \/ \E a \in AccountIds : ExpiryFire(a)
    \/ \E a \in AccountIds : ExpiryCheckOrders(a)
    \/ \E a \in AccountIds : ExpiryRelease(a)
    \/ \E o \in OrderIds : TransferComplete(o)
    \/ \E o \in OrderIds : PutSelect(o)
    \/ \E o \in OrderIds : PutUpdate(o)
    \/ \E o \in OrderIds : PutMarkSold(o)
    \/ \E o \in OrderIds : TransferFetchOrder(o)
    \/ \E o \in OrderIds : TransferGetSeller(o)
    \/ \E o \in OrderIds : TransferCredit(o)
    \/ \E o \in OrderIds : TransferNotify(o, TRUE, TRUE)
    \/ \E a \in AccountIds : CleanupDeleteOrders(a)
    \/ \E a \in AccountIds : CleanupDeleteAccount(a)
    \/ \E o \in OrderIds : CancelSelect(o)
    \/ \E o \in OrderIds : CancelCommit(o)
    \/ \E o \in OrderIds : DeleteOrder(o)

Spec == Init /\ [][Next]_vars

\* What runs without anybody asking: a timer callback that is due, and the next
\* step of a handler whose awaited store call has returned. The presses and
\* messages of the users are not forced.
Fairness ==
    /\ \A u \in UserIds :
          /\ WF_vars(ReserveSelect(u))
          /\ WF_vars(ReserveCommit(u))
          /\ WF_vars(OrderAccountContinue(u))
    /\ \A a \in AccountIds :
          /\ SF_vars(ExpiryFire(a))
          /\ WF_vars(ExpiryCheckOrders(a))
          /\ WF_vars(ExpiryRelease(a))
          /\ SF_vars(CleanupDeleteOrders(a))
          /\ WF_vars(CleanupDeleteAccount(a))
    /\ \A o \in OrderIds :
          /\ WF_vars(PutSelect(o))
          /\ WF_vars(PutUpdate(o))
          /\ WF_vars(PutMarkSold(o))
          /\ WF_vars(TransferFetchOrder(o))
          /\ WF_vars(TransferGetSeller(o))
          /\ WF_vars(TransferCredit(o))
          /\ WF_vars(TransferNotify(o, TRUE, TRUE))
          /\ WF_vars(CancelCommit(o))

FairSpec == Spec /\ Fairness

\* Reserve requests only, from a state in which any of the users have pressed
\* the order button of any account at the same time.
InitReserve ==
    /\ InitWith(1..NumListed)
    /\ buy \in [UserIds -> {Idle} \cup {[pc |-> "sent", account |-> a] : a \in AccountIds}]

NextReserve ==
    \/ \E u \in UserIds : ReserveSelect(u)
    \/ \E u \in UserIds : ReserveCommit(u)

SpecReserve == InitReserve /\ [][NextReserve]_vars

\* Purchases and completions with every account id listed, without expiry and
\* cancellation.
InitSales == InitWith(AccountIds) /\ buy = [u \in UserIds |-> Idle]

NextSales ==
    \/ \E u \in UserIds, a \in AccountIds : OrderAccount(u, a)
    \/ \E u \in UserIds : ReserveSelect(u)
    \/ \E u \in UserIds : ReserveCommit(u)
    \/ \E u \in UserIds : OrderAccountContinue(u)
    \/ \E u \in UserIds : PayMethodTelebirr(u)
    \/ \E u \in UserIds, r \in Receipts : ReceiptText(u, r)
    \/ \E o \in OrderIds : TransferComplete(o)
    \/ \E o \in OrderIds : PutSelect(o)
    \/ \E o \in OrderIds : PutUpdate(o)
    \/ \E o \in OrderIds : PutMarkSold(o)
    \/ \E o \in OrderIds : TransferFetchOrder(o)
    \/ \E o \in OrderIds : TransferGetSeller(o)
    \/ \E o \in OrderIds : TransferCredit(o)
    \/ \E o \in OrderIds : TransferNotify(o, TRUE, TRUE)
    \/ \E a \in AccountIds : CleanupDeleteOrders(a)
    \/ \E a \in AccountIds : CleanupDeleteAccount(a)

SpecSales == InitSales /\ [][NextSales]_vars

\* Reservation and payment on both payment paths, with every account id listed
\* and every receipt.
InitPay == InitWith(AccountIds) /\ buy = [u \in UserIds |-> Idle]

NextPay ==
    \/ \E u \in UserIds, a \in AccountIds : OrderAccount(u, a)
    \/ \E u \in UserIds : ReserveSelect(u)
    \/ \E u \in UserIds : ReserveCommit(u)
    \/ \E u \in UserIds : OrderAccountContinue(u)
    \/ \E u \in UserIds : PayMethodTelebirr(u)
    \/ \E u \in UserIds : PayMethodCbe(u)
    \/ \E u \in UserIds, r \in Receipts \cup OtherReceipts : ReceiptText(u, r)
    \/ \E u \in UserIds, r \in Receipts \cup OtherReceipts, saved \in BOOLEAN,
             fault \in Faults : ReceiptPhoto(u, r, saved, fault)

SpecPay == InitPay /\ [][NextPay]_vars

\* The completion of one pending order: some account is reserved and has the
\* pending order of some buyer, created by POST /orders with the amount of the
\* request body; the seller has some balance.
InitComplete ==
    /\ \E a \in AccountIds, b \in UserIds, r \in Receipts,
          extra \in {0, 50}, bal \in {0, 100} :
          /\ b # OwnerOf(a)
          /\ accounts = SetStatus([x \in AccountIds |-> NewAccount(x)], a, "pending")
          /\ orders = InsertOrder(<<>>, 1, b, a, PriceOf(a) + extra, r)
          /\ users = [u \in UserIds |-> [balance |-> IF u = OwnerOf(a) THEN bal ELSE 0]]
    /\ nextOrder = 2
    /\ buy = [u \in UserIds |-> Idle]
    /\ session = [u \in UserIds |-> NoSession]
    /\ expiry = [a \in AccountIds |-> NoTimers]
    /\ put = [o \in OrderIds |-> NoPut]
    /\ cleanup = [a \in AccountIds |-> NoCleanup]
    /\ cancelTx = [o \in OrderIds |-> None]
    /\ completions = 0
    /\ credited = [u \in UserIds |-> 0]
    /\ orderless = [a \in AccountIds |-> FALSE]
    /\ lastMismatch = NoMismatch
    /\ savedTx = {}
    /\ undelivered = {}
    /\ del = [a \in AccountIds |-> NoDelete]
    /\ notFound = {}
    /\ withdrawals = <<>>
    /\ keptImages = {}
    /\ cleanupFailed = {}
    /\ holder = [a \in AccountIds |->
                   IF a = orders[1].account_id THEN orders[1].buyer_id ELSE None]
    /\ wd = [w \in WithdrawalIds |-> NoWithdrawal]

NextComplete ==
    \/ \E o \in OrderIds : TransferComplete(o)
    \/ \E o \in OrderIds : PutSelect(o)
    \/ \E o \in OrderIds : PutUpdate(o)
    \/ \E o \in OrderIds : PutMarkSold(o)
    \/ \E o \in OrderIds : TransferFetchOrder(o)
    \/ \E o \in OrderIds : TransferGetSeller(o)
    \/ \E o \in OrderIds : TransferCredit(o)
    \/ \E o \in OrderIds : TransferCreditFails(o)
    \/ \E o \in OrderIds, sellerOk \in BOOLEAN, buyerOk \in BOOLEAN :
          TransferNotify(o, sellerOk, buyerOk)
    \/ \E a \in AccountIds : CleanupDeleteOrders(a)
    \/ \E a \in AccountIds : CleanupDeleteAccount(a)

SpecComplete == InitComplete /\ [][NextComplete]_vars

\* Every request on an order that was placed: its completion with the cleanup,
\* updates of its status, its cancellation and its deletion.
NextStatus ==
    \/ NextComplete
    \/ \E o \in OrderIds, status \in OtherStatuses : UpdateOrderStatus(o, status)
    \/ \E o \in OrderIds : CancelSelect(o)
    \/ \E o \in OrderIds : CancelCommit(o)
    \/ \E o \in OrderIds : DeleteOrder(o)
    \/ \E a \in AccountIds : CleanupFails(a)

SpecStatus == InitComplete /\ [][NextStatus]_vars

\* What runs without anybody asking among the steps of NextStatus: the next
\* step of a handler whose awaited call has returned, and a timer callback that
\* is due. Requests are not forced, and no call is forced to fail.
FairnessStatus ==
    /\ \A o \in OrderIds :
          /\ WF_vars(PutSelect(o))
          /\ WF_vars(PutUpdate(o))
          /\ WF_vars(PutMarkSold(o))
          /\ WF_vars(TransferFetchOrder(o))
          /\ WF_vars(TransferGetSeller(o))
          /\ WF_vars(TransferCredit(o))
          /\ WF_vars(TransferNotify(o, TRUE, TRUE))
          /\ WF_vars(CancelCommit(o))
    /\ \A a \in AccountIds :
          /\ SF_vars(CleanupDeleteOrders(a))
          /\ WF_vars(CleanupDeleteAccount(a))

FairSpecStatus == SpecStatus /\ FairnessStatus

\* The completion of an order and the deletion of the seller's other account,
\* with notices that are delivered or not.
NextNotify ==
    \/ NextComplete
    \/ \E u \in UserIds, a \in AccountIds, path \in {"bot", "api"} :
          DeleteAccountRequest(u, a, path)
    \/ \E a \in AccountIds : DeleteAccountSelect(a)
    \/ \E a \in AccountIds : DeleteAccountCheckOrders(a)
    \/ \E a \in AccountIds : DeleteAccountCommit(a)
    \/ \E a \in AccountIds, noticeOk \in BOOLEAN : DeleteAccountNotify(a, noticeOk)

SpecNotify == InitComplete /\ [][NextNotify]_vars

\* Deletion of accounts next to reservation and payment.
NextDelete ==
    \/ \E u \in UserIds, a \in AccountIds : OrderAccount(u, a)
    \/ \E u \in UserIds : ReserveSelect(u)
    \/ \E u \in UserIds : ReserveCommit(u)
    \/ \E u \in UserIds : OrderAccountContinue(u)
    \/ \E u \in UserIds : PayMethodTelebirr(u)
    \/ \E u \in UserIds, r \in Receipts : ReceiptText(u, r)
    \/ \E u \in UserIds, a \in AccountIds, path \in {"bot", "api"} :
          DeleteAccountRequest(u, a, path)
    \/ \E a \in AccountIds : DeleteAccountSelect(a)
    \/ \E a \in AccountIds : DeleteAccountCheckOrders(a)
    \/ \E a \in AccountIds : DeleteAccountCommit(a)
    \/ \E a \in AccountIds, noticeOk \in BOOLEAN : DeleteAccountNotify(a, noticeOk)

SpecDelete == Init /\ [][NextDelete]_vars

\* Cancellation of orders next to reservation, payment and DELETE /orders/:id.
NextCancel ==
    \/ \E u \in UserIds, a \in AccountIds : OrderAccount(u, a)
    \/ \E u \in UserIds : ReserveSelect(u)
    \/ \E u \in UserIds : ReserveCommit(u)
    \/ \E u \in UserIds : OrderAccountContinue(u)
    \/ \E u \in UserIds : PayMethodTelebirr(u)
    \/ \E u \in UserIds, r \in Receipts : ReceiptText(u, r)
    \/ \E o \in OrderIds : CancelSelect(o)
    \/ \E o \in OrderIds : CancelCommit(o)
    \/ \E o \in OrderIds : CancelAbort(o)
    \/ \E o \in OrderIds : CancelNotFound(o)
    \/ \E o \in OrderIds : DeleteOrder(o)

SpecCancel == Init /\ [][NextCancel]_vars

\* Withdrawals of a user who starts with any of a few balances.
InitWithdraw ==
    /\ accounts = [a \in AccountIds |-> NewAccount(a)]
    /\ orders = <<>>
    /\ \E bal \in {0, 50, 100, 200} :
          users = [u \in UserIds |-> [balance |-> IF u = 1 THEN bal ELSE 0]]
    /\ nextOrder = 1
    /\ buy = [u \in UserIds |-> Idle]
    /\ session = [u \in UserIds |-> NoSession]
    /\ expiry = [a \in AccountIds |-> NoTimers]
    /\ put = [o \in OrderIds |-> NoPut]
    /\ cleanup = [a \in AccountIds |-> NoCleanup]
    /\ cancelTx = [o \in OrderIds |-> None]
    /\ completions = 0
    /\ credited = [u \in UserIds |-> 0]
    /\ orderless = [a \in AccountIds |-> FALSE]
    /\ lastMismatch = NoMismatch
    /\ savedTx = {}
    /\ undelivered = {}
    /\ del = [a \in AccountIds |-> NoDelete]
    /\ notFound = {}
    /\ withdrawals = <<>>
    /\ keptImages = {}
    /\ cleanupFailed = {}
    /\ holder = [a \in AccountIds |-> None]
    /\ wd = [w \in WithdrawalIds |-> NoWithdrawal]

NextWithdraw ==
    \/ \E w \in WithdrawalIds, u \in {1} : WithdrawBalance(w, u)
    \/ \E w \in WithdrawalIds : WithdrawGetUser(w)
    \/ \E w \in WithdrawalIds, u \in {1}, amount \in Amounts : PostWithdrawals(w, u, amount)
    \/ \E w \in WithdrawalIds : WithdrawSelect(w)
    \/ \E w \in WithdrawalIds : WithdrawCommit(w)

SpecWithdraw == InitWithdraw /\ [][NextWithdraw]_vars

\* The seller's ledger: the completion of an order of a seller whose balance
\* is the default 0 of a new user, next to the seller's withdrawals.
InitLedger ==
    /\ InitComplete
    /\ \A u \in UserIds : users[u].balance = 0
    /\ orders[1].buyer_id = 2
    /\ orders[1].receipt_no = "R1"
    /\ orders[1].amount = PriceOf(orders[1].account_id)

NextLedger ==
    \/ \E o \in OrderIds : TransferComplete(o)
    \/ \E o \in OrderIds : PutSelect(o)
    \/ \E o \in OrderIds : PutUpdate(o)
    \/ \E o \in OrderIds : PutMarkSold(o)
    \/ \E o \in OrderIds : TransferFetchOrder(o)
    \/ \E o \in OrderIds : TransferGetSeller(o)
    \/ \E o \in OrderIds : TransferCredit(o)
    \/ \E o \in OrderIds : TransferNotify(o, TRUE, TRUE)
    \/ \E a \in AccountIds : CleanupDeleteOrders(a)
    \/ \E a \in AccountIds : CleanupDeleteAccount(a)
    \/ \E w \in WithdrawalIds, u \in {1} : WithdrawBalance(w, u)
    \/ \E w \in WithdrawalIds : WithdrawGetUser(w)
    \/ \E w \in WithdrawalIds, u \in {1}, amount \in Amounts : PostWithdrawals(w, u, amount)
    \/ \E w \in WithdrawalIds : WithdrawSelect(w)
    \/ \E w \in WithdrawalIds : WithdrawCommit(w)

SpecLedger == InitLedger /\ [][NextLedger]_vars

\* ================================================================== claims

\* The reserve requests for account a, by the position of their handler.
Requesters(a) == {u \in UserIds : buy[u].pc # "idle" /\ buy[u].account = a}
Succeeded(a) == {u \in Requesters(a) : buy[u].pc = "ok"}
Refused(a) == {u \in Requesters(a) : buy[u].pc = "conflict"}
Answered(a) == Requesters(a) # {} /\ Requesters(a) = Succeeded(a) \cup Refused(a)

\* C1: of the reserve requests issued at the same time against one available
\* account, never more than one holds or has won the reservation, and once all
\* are answered exactly one has succeeded and every other one got 409.
C1_ExactlyOneReserveWins ==
    \A a \in 1..NumListed :
        /\ Cardinality({u \in Requesters(a) : buy[u].pc \in {"locked", "ok"}}) <= 1
        /\ Answered(a) =>
              /\ Cardinality(Succeeded(a)) = 1
              /\ Refused(a) = Requesters(a) \ Succeeded(a)

\* Three requests against the same available account have all been answered.
C1_Witness ==
    \E a \in 1..NumListed :
        /\ Answered(a)
        /\ Cardinality(Requesters(a)) >= 3
        /\ accounts[a].status = "pending"

\* C2: the only status changes an account ever makes are available -> pending,
\* pending -> available and pending -> sold.
C2_OnlyLegalStatusChanges ==
    [][\A a \in AccountIds :
          (AccountExists(a) /\ a \in DOMAIN accounts' /\ accounts'[a].status # accounts[a].status)
              => <<accounts[a].status, accounts'[a].status>> \in
                     {<<"available", "pending">>, <<"pending", "available">>,
                      <<"pending", "sold">>}]_vars

\* C3: an account is referenced by at most one pending order.
C3_AtMostOnePendingOrder ==
    \A a \in AccountIds : Cardinality(PendingOrdersOf(a)) <= 1

\* C4: every pending order references an account whose status is pending.
C4_PendingOrderHasPendingAccount ==
    \A o \in DOMAIN orders :
        orders[o].status = "pending" =>
            /\ AccountExists(orders[o].account_id)
            /\ accounts[orders[o].account_id].status = "pending"

\* No completion handler is between its first and its last step.
NoCompletionRunning == \A o \in OrderIds : put[o].pc \in {"idle", "hung"}

\* C5: once the completions crediting a seller have all finished, the seller's
\* balance is the initial balance (0) plus the sum of the prices they credited.
C5_NoLostCredit ==
    NoCompletionRunning => \A u \in UserIds : users[u].balance = 0 + credited[u]

\* C6: no two orders carry the same receipt.
C6_ReceiptUsedOnce ==
    \A o1, o2 \in DOMAIN orders :
        orders[o1].receipt_no = orders[o2].receipt_no => o1 = o2

\* The step is the write of a reservation timer on account a, and it changes
\* the status.
ExpiryWrites(a) ==
    /\ expiry'[a].writing = expiry[a].writing - 1
    /\ AccountExists(a)
    /\ accounts[a].status # "available"
    /\ accounts'[a].status = "available"

\* C8: the expiry task never makes an account available while an order
\* references the account at the time of the write.
C8_ExpiryNeverReleasesOrderedAccount ==
    [][\A a \in AccountIds : ExpiryWrites(a) => OrdersOf(a) = {}]_vars

\* C10: an order is inserted only for an account that has no active order.
C10_NoOrderBesideActiveOrder ==
    [][nextOrder' = nextOrder + 1 =>
          ActiveOrdersOf(orders'[nextOrder].account_id) = {}]_vars

\* The account is reserved and no order has been created for it since.
ReservedWithoutOrder(a) ==
    AccountExists(a) /\ accounts[a].status = "pending" /\ orderless[a]

\* C7: a reserved account for which no order is created becomes available
\* again once its expiry task has run.
C7_ReservationExpires ==
    \A a \in AccountIds :
        ReservedWithoutOrder(a) ~>
            ((AccountExists(a) /\ accounts[a].status = "available") \/ ~orderless[a])

\* C9: a reserve request is accepted exactly when the account exists and is
\* available; accepting it writes nothing but the status, which is available
\* until the commit makes it pending; refusing it writes nothing at all.
C9_ReserveContract ==
    [][\A u \in UserIds :
          LET a == buy[u].account IN
          /\ (buy[u].pc = "sent" /\ buy'[u].pc # "sent") =>
                /\ buy'[u].pc \in {"locked", "conflict"}
                /\ buy'[u].pc = "locked" <=>
                      (a \in DOMAIN accounts /\ accounts[a].status = "available")
                /\ accounts' = accounts
                /\ orders' = orders
          /\ (buy[u].pc = "locked" /\ buy'[u].pc # "locked") =>
                /\ buy'[u].pc = "ok"
                /\ a \in DOMAIN accounts /\ accounts[a].status = "available"
                /\ accounts' = [accounts EXCEPT ![a].status = "pending"]
                /\ orders' = orders]_vars

\* One request has been accepted and made the account pending while another one
\* has been refused.
C9_Witness ==
    \E u, v \in UserIds :
        /\ buy[u].pc = "ok"
        /\ accounts[buy[u].account].status = "pending"
        /\ buy[v].pc = "conflict"
        /\ buy[v].account = buy[u].account

\* The names the two payment paths take for the escrow, as they compare them.
EscrowIdentities ==
    {trimToUpperCase(EscrowName)} \cup {trimToUpperCase(v) : v \in validReceivers}

\* The receipt pays less than the account costs or pays somebody else.
Insufficient(r, a) ==
    settledAmount(r) < PriceOf(a) \/ trimToUpperCase(creditedPartyName(r)) \notin EscrowIdentities

\* C11: a payment handler that reports a mismatch creates no order and leaves
\* every account as it is (a reserved one stays pending), and no order is ever
\* created from a receipt that pays less than the account's price or whose
\* receiver is not an escrow identity.
C11_MismatchCreatesNoOrder ==
    [][/\ lastMismatch' # lastMismatch =>
              /\ orders' = orders
              /\ nextOrder' = nextOrder
              /\ accounts' = accounts
       /\ nextOrder' = nextOrder + 1 =>
              ~Insufficient(orders'[nextOrder].receipt_no, orders'[nextOrder].account_id)]_vars

\* A buyer's underpaying receipt was turned down while the
\* account is reserved and has no order.
C11_Witness ==
    /\ lastMismatch.receipt # "none"
    /\ settledAmount(lastMismatch.receipt) < PriceOf(lastMismatch.account)
    /\ accounts[lastMismatch.account].status = "pending"
    /\ OrdersOf(lastMismatch.account) = {}

\* C12: in the completion of a pending order, the update of the order makes it
\* completed, the update of the account makes the order's account sold, and the
\* credit raises the balance of the account's owner by exactly the account's
\* price, whatever the amount of the order, and touches no other balance.
C12_CompletionResults ==
    [][\A o \in OrderIds :
          /\ (put[o].pc = "update" /\ put'[o].pc = "sold") =>
                /\ orders'[o].status = "completed"
                /\ put'[o].account = orders[o].account_id
          /\ (put[o].pc = "sold" /\ put'[o].pc = "fetch") =>
                (AccountExists(put[o].account) => accounts'[put[o].account].status = "sold")
          /\ (put[o].pc = "credit" /\ put'[o].pc = "notify" /\ credited' # credited) =>
                LET seller == OwnerOf(put[o].account) IN
                /\ users'[seller].balance = users[seller].balance + PriceOf(put[o].account)
                /\ \A u \in UserIds \ {seller} : users'[u] = users[u]]_vars

\* C13: once no completion is under way, an order is completed only with its
\* account sold, an account is sold only with its seller credited, and a seller
\* is credited only with an account of theirs sold (or already torn down).
C13_CompletionAllOrNothing ==
    NoCompletionRunning =>
        /\ \A o \in DOMAIN orders :
              orders[o].status = "completed" =>
                  /\ AccountExists(orders[o].account_id)
                  /\ accounts[orders[o].account_id].status = "sold"
        /\ \A a \in DOMAIN accounts :
              accounts[a].status = "sold" => credited[OwnerOf(a)] > 0
        /\ \A u \in UserIds :
              credited[u] > 0 =>
                  \E a \in AccountIds :
                      /\ OwnerOf(a) = u
                      /\ AccountExists(a) => accounts[a].status = "sold"

\* The step in which a DELETE /accounts/:id request removes account a.
DeletedByRequest(a) ==
    /\ del[a].pc = "delete"
    /\ AccountExists(a)
    /\ a \notin DOMAIN accounts'

\* C14: an account a delete request removes is available at the moment of the
\* deletion, whatever reservation ran beside the request.
C14_DeleteOnlyAvailable ==
    [][\A a \in AccountIds :
          DeletedByRequest(a) => accounts[a].status = "available"]_vars

\* C15: an account is removed only on the request of its owner, through the
\* bot's confirmation and through the endpoint alike.
C15_DeleteOnlyByOwner ==
    [][\A a \in AccountIds :
          DeletedByRequest(a) => del[a].requester = OwnerOf(a)]_vars

\* C16: a delete request removes no account that a pending or in_progress order
\* references, and so removes no such order by the cascade, whatever order was
\* created beside the request.
C16_DeleteKeepsActiveOrders ==
    [][\A a \in AccountIds :
          DeletedByRequest(a) =>
              /\ ActiveOrdersOf(a) = {}
              /\ \A o \in DOMAIN orders :
                    orders[o].status \in {"pending", "in_progress"} =>
                        o \in DOMAIN orders']_vars

\* C17: a cancel transaction that ends either removed the order and left its
\* account available, touching no other row, or changed nothing; it starts only
\* on an order that exists, and the 404 answer comes with no change to accounts
\* and orders.
C17_CancelBothOrNeither ==
    [][\A o \in OrderIds :
          /\ (cancelTx[o] = None /\ cancelTx'[o] # None) => OrderExists(o)
          /\ (cancelTx[o] # None /\ cancelTx'[o] = None) =>
                LET a == cancelTx[o] IN
                \/ /\ accounts' = accounts
                   /\ orders' = orders
                \/ /\ o \notin DOMAIN orders'
                   /\ \A p \in DOMAIN orders \ {o} :
                         p \in DOMAIN orders' /\ orders'[p] = orders[p]
                   /\ DOMAIN accounts' = DOMAIN accounts
                   /\ AccountExists(a) => accounts'[a].status = "available"
                   /\ \A b \in DOMAIN accounts \ {a} : accounts'[b] = accounts[b]
          /\ (o \in notFound' /\ o \notin notFound) =>
                /\ ~OrderExists(o)
                /\ accounts' = accounts
                /\ orders' = orders]_vars

\* C17 witness: order 1 was cancelled (it is gone and its account, reserved
\* when the order was placed, is available again), and a second cancel of the
\* same order was answered 404.
C17_Witness ==
    /\ nextOrder > 1
    /\ ~OrderExists(1)
    /\ 1 \in notFound
    /\ \A o \in OrderIds : cancelTx[o] = None
    /\ \A a \in DOMAIN accounts : accounts[a].status = "available"
    /\ \A u \in UserIds : buy[u].pc = "idle"

\* C18: a withdrawal request whose amount exceeds the balance the user has when
\* the request is decided is answered "Insufficient balance" and writes neither
\* a balance nor a withdrawal; a request that succeeds lowers the user's balance
\* by exactly its amount, which the balance covered, and adds exactly one
\* withdrawal, pending, for that user and amount, in the same step, and changes
\* no other balance.
C18_WithdrawContract ==
    [][/\ (withdrawals' # withdrawals \/ users' # users) =>
             \E w \in WithdrawalIds : wd[w].pc = "update" /\ wd'[w].answer = "ok"
       /\ \A w \in WithdrawalIds :
          LET u == wd[w].user_id
              amount == wd[w].amount
          IN
          /\ (wd[w].pc = "select" /\ wd'[w].pc # "select") =>
                /\ users' = users
                /\ withdrawals' = withdrawals
                /\ users[u].balance < amount <=> wd'[w].answer = "insufficient"
          /\ (wd[w].pc = "update" /\ wd'[w].pc # "update") =>
                /\ wd'[w].answer = "ok"
                /\ amount <= users[u].balance
                /\ users'[u].balance = users[u].balance - amount
                /\ \A v \in UserIds \ {u} : users'[v] = users[v]
                /\ Len(withdrawals') = Len(withdrawals) + 1
                /\ SubSeq(withdrawals', 1, Len(withdrawals)) = withdrawals
                /\ LET row == withdrawals'[Len(withdrawals')] IN
                      /\ row.user_id = u
                      /\ row.amount = amount
                      /\ row.status = "pending"]_vars

\* C19: a withdrawal is recorded only for a request made with a balance of at
\* least the minimum of 100; a request made below it writes nothing.
C19_BelowThresholdRejected ==
    [][\A w \in WithdrawalIds :
          (wd[w].pc # "idle" /\ wd[w].atRequest < MinWithdrawal) =>
              /\ wd'[w].answer # "ok"
              /\ (wd'[w] # wd[w]) => (users' = users /\ withdrawals' = withdrawals)]_vars

\* C20: the step in which the notices of a completion or of a deletion are
\* sent leaves every account, order and balance as it is, whether the notices
\* are delivered or not; and an order whose notice failed is still completed,
\* an account whose deletion notice failed is still deleted.
C20_NoticeFailureKeepsLedger ==
    [][/\ (\/ undelivered' # undelivered
           \/ \E o \in OrderIds : put[o].pc = "notify" /\ put'[o].pc # "notify"
           \/ \E a \in AccountIds : del[a].pc = "notify" /\ del'[a].pc # "notify") =>
             /\ accounts' = accounts
             /\ orders' = orders
             /\ users' = users
       /\ \A o \in OrderIds :
             (<<"order", o>> \in undelivered' /\ o \in DOMAIN orders') =>
                 orders'[o].status = "completed"
       /\ \A a \in AccountIds :
             <<"account", a>> \in undelivered' => a \notin DOMAIN accounts']_vars

\* C20 witness: the notices of the completion of order 1 and of the deletion of
\* the seller's other account could not be delivered; the order's account is
\* sold, the seller has been credited its price, and the other account is gone.
C20_Witness ==
    /\ <<"order", 1>> \in undelivered
    /\ OrderExists(1)
    /\ orders[1].status = "completed"
    /\ accounts[orders[1].account_id].status = "sold"
    /\ credited[OwnerOf(orders[1].account_id)] = PriceOf(orders[1].account_id)
    /\ \E a \in AccountIds : <<"account", a>> \in undelivered /\ ~AccountExists(a)

\* The step is one of the cleanup timer of account a.
CleanupStep(a) == cleanup'[a] # cleanup[a] /\ cleanup'[a].scheduled <= cleanup[a].scheduled

\* C21: an order that is completed stays completed for as long as its row
\* exists, and its row is removed only by a step of the cleanup timer of its
\* account.
C21_CompletedIsTerminal ==
    [][\A o \in DOMAIN orders :
          orders[o].status = "completed" =>
              IF o \in DOMAIN orders'
              THEN orders'[o].status = "completed"
              ELSE CleanupStep(orders[o].account_id)]_vars

\* The receipt names an escrow identity, letter case and surrounding blanks
\* aside.
NamesEscrow(r) == trimToUpperCase(creditedPartyName(r)) \in EscrowIdentities

\* C22: on both payment paths a receipt whose receiver is the escrow name as
\* both paths know it is turned down only if it pays less than the account's
\* price (one that pays more is accepted), and an order is created only from a
\* receipt that pays at least the price to an escrow identity.
C22_AcceptedIffCoversPrice ==
    [][/\ (/\ lastMismatch' # lastMismatch
           /\ creditedPartyName(lastMismatch'.receipt) = EscrowName) =>
             settledAmount(lastMismatch'.receipt) < PriceOf(lastMismatch'.account)
       /\ nextOrder' = nextOrder + 1 =>
             /\ settledAmount(orders'[nextOrder].receipt_no)
                    >= PriceOf(orders'[nextOrder].account_id)
             /\ NamesEscrow(orders'[nextOrder].receipt_no)]_vars

\* C23: with a receipt that pays exactly the account's price, which both paths
\* take as the right amount, the receipt is turned down exactly when its
\* receiver, trimmed and in upper case, is none of the escrow identities.
C23_ReceiverNormalizedMatch ==
    [][/\ (/\ lastMismatch' # lastMismatch
           /\ settledAmount(lastMismatch'.receipt) = PriceOf(lastMismatch'.account)) =>
             ~NamesEscrow(lastMismatch'.receipt)
       /\ nextOrder' = nextOrder + 1 => NamesEscrow(orders'[nextOrder].receipt_no)]_vars

\* C24: no photo handler ends with the image it uploaded left in place without
\* an attempt to delete it.
C24_ImageAlwaysDiscarded == keptImages = {}

\* C25: an order is inserted only for an account whose status is pending at
\* the moment of the insert.
C25_OrderOnlyForPendingAccount ==
    [][nextOrder' = nextOrder + 1 =>
          LET a == orders'[nextOrder].account_id IN
          AccountExists(a) /\ accounts[a].status = "pending"]_vars

\* The step in which the cancel transaction of order o ends.
CancelEnds(o) == cancelTx[o] # None /\ cancelTx'[o] = None

\* C26: a cancel of an order that is not pending deletes no order and changes
\* no account.
C26_CancelOnlyPending ==
    [][\A o \in OrderIds :
          (CancelEnds(o) /\ OrderExists(o) /\ orders[o].status # "pending") =>
              /\ orders' = orders
              /\ accounts' = accounts]_vars

\* The step ends the pending of order o other than by its completion: the row
\* goes away by a cancel or a DELETE of the order, or its status becomes
\* cancelled or failed.
StopsPending(o) ==
    /\ OrderExists(o)
    /\ orders[o].status = "pending"
    /\ AccountExists(orders[o].account_id)
    /\ orders[o].account_id \in DOMAIN accounts'
    /\ ~CleanupStep(orders[o].account_id)
    /\ \/ o \notin DOMAIN orders'
       \/ orders'[o].status \in {"cancelled", "failed"}

\* C27: when a pending order stops being pending without completing, its
\* account is available after the step.
C27_ReleaseOnCancel ==
    [][\A o \in OrderIds :
          StopsPending(o) => accounts'[orders[o].account_id].status = "available"]_vars

\* C29: the cleanup timer of an account deletes rows only while the account is
\* sold.
C29_CleanupRechecks ==
    [][\A a \in AccountIds :
          (CleanupStep(a) /\ (orders' # orders \/ accounts' # accounts)) =>
              AccountExists(a) /\ accounts[a].status = "sold"]_vars

\* C28: once an order is completed, its account and with it every order that
\* references the account are eventually deleted, unless a delete of the
\* cleanup timer failed; and a cleanup that fails is not scheduled again.
C28_CleanupEventually ==
    /\ \A a \in AccountIds :
          (\E o \in DOMAIN orders :
               orders[o].account_id = a /\ orders[o].status = "completed")
          ~> ((~AccountExists(a) /\ OrdersOf(a) = {}) \/ a \in cleanupFailed)
    /\ [][\A a \in AccountIds :
            /\ cleanupFailed' # cleanupFailed => (accounts' = accounts /\ orders' = orders)
            /\ (cleanup'[a].scheduled + cleanup'[a].ordersDeleted
                    > cleanup[a].scheduled + cleanup[a].ordersDeleted) =>
                  \E o \in OrderIds :
                      put[o].pc = "sold" /\ put[o].account = a /\ put'[o].pc = "fetch"]_vars

\* C28 witness: an order was completed and the cleanup, none of whose deletes
\* failed, has removed its account and the order.
C28_Witness ==
    /\ completions > 0
    /\ cleanupFailed = {}
    /\ orders = <<>>
    /\ \E a \in AccountIds : ~AccountExists(a)
    /\ \A a \in AccountIds : cleanup[a] = NoCleanup

\* PUT /orders/:id for order o has been received and not answered.
PutUnanswered(o) == put[o].pc \in {"select", "update", "sold", "hung"}

\* C30: every PUT /orders/:id request is eventually answered.
C30_UpdateAlwaysAnswered ==
    \A o \in OrderIds : PutUnanswered(o) ~> ~PutUnanswered(o)

\* C38: the withdrawal row that a payout request of the bot's withdraw action
\* creates has the reason 'seller_payout', the reason the request carries.
C38_PayoutReasonStored ==
    [][\A w \in WithdrawalIds :
          (/\ wd[w].pc = "update"
           /\ wd[w].path = "bot"
           /\ wd[w].reason = "seller_payout"
           /\ Len(withdrawals') = Len(withdrawals) + 1
           /\ wd'[w].answer = "ok") =>
              withdrawals'[Len(withdrawals')].reason = "seller_payout"]_vars

\* C31: in every state every user's balance is a non-negative integer, however
\* the credits of completions and the withdrawals interleave.
C31_BalanceNonNegative == \A u \in UserIds : users[u].balance \in Nat

\* C31 witness: the seller has been credited and two withdrawals were recorded,
\* which took the balance down to 0.
C31_Witness ==
    /\ credited[1] > 0
    /\ Len(withdrawals) = 2
    /\ users[1].balance = 0

\* The sum of the amounts of the withdrawal rows of user u.
RECURSIVE Withdrawn(_, _)
Withdrawn(rows, u) ==
    IF rows = <<>> THEN 0
    ELSE (IF Head(rows).user_id = u THEN Head(rows).amount ELSE 0) + Withdrawn(Tail(rows), u)

\* C34: for every user, the amounts of the user's withdrawals and the balance
\* add up to the credits the user has received; in particular the withdrawals
\* never exceed the credits.
C34_LedgerConserved ==
    \A u \in UserIds : users[u].balance + Withdrawn(withdrawals, u) = credited[u]

\* C33: the seller is credited at most once for an order. Where one order has
\* been placed, a completion handler raises the seller's balance only if no
\* completion has credited the seller before.
C33_CreditedOncePerOrder ==
    [][\A o \in OrderIds :
          (/\ put[o].pc = "credit"
           /\ put'[o].pc # "credit"
           /\ users'[put[o].seller].balance > users[put[o].seller].balance) =>
              credited[put[o].seller] = 0]_vars

\* C32: the timer of one reservation never releases a later reservation. The
\* timers of an account run for the same time, so they fire in the order of
\* their reservations: a timer that releases a reserved account for which no
\* order was created since it was last reserved is the timer of that last
\* reservation, so no younger timer of the account is left behind by the write.
C32_TimerReleasesOwnReservation ==
    [][\A a \in AccountIds :
          (/\ ExpiryWrites(a)
           /\ accounts[a].status = "pending"
           /\ orderless[a]) =>
              expiry'[a].scheduled + expiry'[a].checked + expiry'[a].writing = 0]_vars

\* C35: an order is created only for the buyer for whom the account is
\* reserved at that moment. Stated for the accounts that are reserved when the
\* order is created: the buyer of the new order is the user whose reservation
\* made the account pending.
C35_OrderOnlyForHolder ==
    [][\A o \in OrderIds :
          (/\ ~OrderExists(o)
           /\ o \in DOMAIN orders'
           /\ AccountExists(orders'[o].account_id)
           /\ accounts[orders'[o].account_id].status = "pending") =>
              holder[orders'[o].account_id] = orders'[o].buyer_id]_vars

\* C36: a purchase attempt of the account's owner, which the bot rejects,
\* leaves the account's status as it is: no step of the owner's order_account_
\* handler changes an account.
C36_OwnerAttemptKeepsStatus ==
    [][\A u \in UserIds :
          (/\ buy[u].pc # "idle"
           /\ u = OwnerOf(buy[u].account)
           /\ buy'[u] # buy[u]) =>
              accounts' = accounts]_vars

\* C37: in every state reached through the bot's purchase flow, no order has a
\* buyer who owns the order's account.
C37_NoOrderByOwner ==
    \A o \in DOMAIN orders : orders[o].buyer_id # OwnerOf(orders[o].account_id)

\* C37 witness: the owner has tried to buy the account, which is still reserved
\* by that attempt, the handler has turned the owner away, and an order of a
\* buyer has been created for the account.
C37_Witness ==
    \E a \in AccountIds :
        /\ holder[a] = OwnerOf(a)
        /\ buy[OwnerOf(a)].pc = "idle"
        /\ session[OwnerOf(a)].pendingAccountId = None
        /\ \E o \in DOMAIN orders : orders[o].account_id = a

====
